---- MODULE Spec2Model ----
(***************************************************************************)
(* Model of the pin terminal spinner (github.com/yarlson/pin), translated  *)
(* from the Pin type and its methods Start, Stop, Fail and UpdateMessage.  *)
(*                                                                         *)
(* Caller threads execute the methods statement by statement; every `go`   *)
(* statement of Start adds a task to `tasks`.  Each access of a shared     *)
(* field (isRunning, message, current, stopChan, wg, messageMu, standard   *)
(* output) is a step of its own, so that every interleaving the Go         *)
(* scheduler can produce is an interleaving of the model.                  *)
(***************************************************************************)
EXTENDS Integers, Sequences, FiniteSets, TLC

\* ---------------------------------------------------------------- bounds
MaxStarts == 2        \* Start calls per behaviour
MaxStops == 2         \* Stop/Fail calls per behaviour
MaxUpdates == 1       \* UpdateMessage calls per behaviour
MaxTicks == 2         \* ticker events consumed per behaviour
MaxCancels == 2       \* invocations of returned cancel functions per behaviour
MaxFairStops == 1     \* Stop/Fail calls per behaviour of FairSpec
MaxFairCancels == 1   \* cancel invocations per behaviour of FairSpec
MaxStopsStarts == 1   \* Start calls per behaviour of SpecStops
MaxOpts == 2          \* options given to New in OptSpec
MaxOptStarts == 1     \* Start calls per behaviour of OptSpec
MaxOptStops == 1      \* Stop/Fail calls per behaviour of OptSpec
MaxFlagStarts == 1    \* Start calls per behaviour of FlagSpec
MaxFlagStops == 1     \* Stop/Fail calls per behaviour of FlagSpec
MaxFlips == 1         \* assignments to ForceInteractive per behaviour of FlagSpec

\* ------------------------------------------------------------- constants
MaxFlagCtxStops == 1
MaxFlagCtxCancels == 1
NumFrames == 10       \* len(defaultFrames)
StopChanCap == 1      \* make(chan struct{}, 1)

\* ---------------------------------------------------------- input domains
InitMsgs == {"Initial"}             \* the message given to New
Msgs == {"Updated"}                 \* message texts of UpdateMessage
NoMsg == "<none>"                   \* Stop()/Fail() called with no argument
FinalArgs == {NoMsg, "Done"}        \* the variadic argument of Stop/Fail
Background == "background"          \* context.Background(): never cancelled
Ctxs == {"ctxA"}                    \* cancellable contexts of the caller
Callers == {"main", "other"}        \* caller threads
MainOnly == {"main"}                \* the single caller thread of Spec
OutKinds == {"nonfile"}             \* p.out: a bytes.Buffer or a pipe

\* what the writer p.out can be: "nonfile" (not an *os.File), or an *os.File
\* whose Stat fails ("staterr"), is a character device ("chardev") or is
\* another file ("file")
KindsOf(w) == IF w = "buffer" THEN {"nonfile"} ELSE {"staterr", "chardev", "file"}

\* the values of type Color and Position used, and the runes and strings
Colors == {"ColorDefault", "ColorBlack", "ColorRed", "ColorGreen", "ColorYellow",
           "ColorBlue", "ColorMagenta", "ColorCyan", "ColorGray", "ColorWhite"}
defaultFrames == <<"f0", "f1", "f2", "f3", "f4", "f5", "f6", "f7", "f8", "f9">>

\* the frame slices given to WithSpinnerFrames, by name
FramesOf(n) ==
    IF n = "empty" THEN <<>> ELSE IF n = "x" THEN <<"x">> ELSE <<"a", "b">>

\* the options given to New
Options ==
    {[name |-> "WithSpinnerColor", val |-> "ColorCyan"],
     [name |-> "WithTextColor", val |-> "ColorCyan"],
     [name |-> "WithTextColor", val |-> "ColorYellow"],
     [name |-> "WithDoneSymbol", val |-> "CROSS"],
     [name |-> "WithDoneSymbolColor", val |-> "ColorBlue"],
     [name |-> "WithPrefix", val |-> "Task"],
     [name |-> "WithPrefixColor", val |-> "ColorMagenta"],
     [name |-> "WithSeparator", val |-> ":"],
     [name |-> "WithSeparatorColor", val |-> "ColorGray"],
     [name |-> "WithPosition", val |-> "PositionRight"],
     [name |-> "WithFailSymbol", val |-> "BANG"],
     [name |-> "WithFailSymbolColor", val |-> "ColorYellow"],
     [name |-> "WithFailColor", val |-> "ColorRed"],
     [name |-> "WithSpinnerFrames", val |-> "empty"],
     [name |-> "WithSpinnerFrames", val |-> "ab"],
     [name |-> "WithWriter", val |-> "buffer"]}
OptSeqs == UNION {[1..n -> Options] : n \in 0..MaxOpts}
CtorMsgs == {"Initial", "Loading"}  \* the message given to New in OptSpec

VARIABLES
    ForceInteractive,  \* the package variable ForceInteractive
    outKind,           \* what kind of writer p.out is
    pin,               \* the fields of p that New and the options set
    newArgs,           \* the arguments New was called with
    nFlips,            \* assignments to ForceInteractive made so far
    isRunning,         \* p.isRunning
    message,           \* p.message
    current,           \* p.current
    stopChan,          \* number of elements buffered in p.stopChan
    wg,                \* counter of p.wg
    messageMu,         \* p.messageMu: [w |-> writer held, r |-> read holds]
    cancelled,         \* which of the caller's contexts are cancelled
    tasks,             \* the goroutines launched by Start, in launch order
    callers,           \* per caller thread: position and locals
    cancelFns,         \* the cancel functions returned by Start, in order
    out,               \* everything written to standard output, in order
    nStarts, nStops, nUpdates, nTicks, nCancels

vars == <<ForceInteractive, outKind, pin, newArgs, nFlips, isRunning, message, current, stopChan,
          wg, messageMu, cancelled, tasks, callers, cancelFns, out,
          nStarts, nStops, nUpdates, nTicks, nCancels>>

config == <<ForceInteractive, outKind, pin, newArgs, nFlips>>
counters == <<nStarts, nStops, nUpdates, nTicks, nCancels>>

\* ------------------------------------------------------------ pure helpers

\* mutant of isTerminal: the writer is examined before the override flag
isTerminal_FileFirst(force, kind) ==
    IF kind = "nonfile" THEN FALSE
    ELSE IF kind = "staterr" THEN FALSE
    ELSE IF force THEN TRUE
    ELSE kind = "chardev"

\* isTerminal(w): the override flag first, then the character-device test.
isTerminal(force, kind) ==
    IF force THEN TRUE
    ELSE IF kind = "nonfile" THEN FALSE
    ELSE IF kind = "staterr" THEN FALSE
    ELSE kind = "chardev"

Interactive == isTerminal(ForceInteractive, outKind)

\* A caller thread: pc is its position, op/arg/ctx the call in progress and
\* its arguments, msg the local variable msg of Start.  found records what
\* p.isRunning was when the call in progress tested it (Stop, Fail) or began
\* (UpdateMessage).
Idle == [pc |-> "idle", op |-> "", arg |-> NoMsg, ctx |-> Background,
         msg |-> "", found |-> FALSE]

\* One write to standard output.  k: "line" (text + newline), "frame" (an
\* animation frame), "clear" (the line-clear sequence), "final" (the line of
\* printResult).  by: 0 for a caller thread, else the writing task.  nt: the
\* number of tasks launched when the write happened.
Write(k, by, msg, g, op) ==
    [k |-> k, by |-> by, msg |-> msg, g |-> g, op |-> op, nt |-> Len(tasks)]

\* A task (goroutine): kind "anim" (the animation loop) or "waiter" (the
\* non-interactive goroutine), pc its position, parent the context given to
\* Start, own whether the cancel function of the derived context was invoked,
\* msg and cur its local copies of p.message and p.current.  born records how
\* many Stop/Fail calls had been made when the task was launched.
\*
\* A returned cancel function: kind "inert" (func() {}) or "cancel" (the cancel
\* of context.WithCancel, for task `task`); noop tells that Start returned it
\* because the spinner was already running; calls counts its invocations.

\* ctx.Done() of the context task t selects on: the context derived by
\* context.WithCancel (interactive path) is done when its cancel function was
\* invoked or its parent is done; the non-interactive task waits on the
\* caller's context itself.
ParentDone(x) == x # Background /\ cancelled[x]
Done(t) == tasks[t].own \/ ParentDone(tasks[t].parent)

AnimAlive == {t \in 1..Len(tasks) : tasks[t].kind = "anim" /\ tasks[t].pc # "done"}

\* ------------------------------------------------------------- options

\* mutant of ApplyOpt: WithPrefix replaces the message
ApplyOpt_PrefixIsMessage(q, o) ==
    CASE o.name = "WithSpinnerColor" -> [q EXCEPT !.spinnerColor = o.val]
      [] o.name = "WithTextColor" -> [q EXCEPT !.textColor = o.val]
      [] o.name = "WithDoneSymbol" -> [q EXCEPT !.doneSymbol = o.val]
      [] o.name = "WithDoneSymbolColor" -> [q EXCEPT !.doneSymbolColor = o.val]
      [] o.name = "WithPrefix" -> [q EXCEPT !.prefix = o.val, !.message = o.val]
      [] o.name = "WithPrefixColor" -> [q EXCEPT !.prefixColor = o.val]
      [] o.name = "WithSeparator" -> [q EXCEPT !.separator = o.val]
      [] o.name = "WithSeparatorColor" -> [q EXCEPT !.separatorColor = o.val]
      [] o.name = "WithPosition" -> [q EXCEPT !.position = o.val]
      [] o.name = "WithFailSymbol" -> [q EXCEPT !.failSymbol = o.val]
      [] o.name = "WithFailSymbolColor" -> [q EXCEPT !.failSymbolColor = o.val]
      [] o.name = "WithFailColor" -> [q EXCEPT !.failColor = o.val]
      [] o.name = "WithSpinnerFrames" -> [q EXCEPT !.frames = FramesOf(o.val)]
      [] o.name = "WithWriter" -> [q EXCEPT !.out = o.val]

\* one option applied to the Pin q: each With* function assigns one field
ApplyOpt(q, o) ==
    CASE o.name = "WithSpinnerColor" -> [q EXCEPT !.spinnerColor = o.val]
      [] o.name = "WithTextColor" -> [q EXCEPT !.textColor = o.val]
      [] o.name = "WithDoneSymbol" -> [q EXCEPT !.doneSymbol = o.val]
      [] o.name = "WithDoneSymbolColor" -> [q EXCEPT !.doneSymbolColor = o.val]
      [] o.name = "WithPrefix" -> [q EXCEPT !.prefix = o.val]
      [] o.name = "WithPrefixColor" -> [q EXCEPT !.prefixColor = o.val]
      [] o.name = "WithSeparator" -> [q EXCEPT !.separator = o.val]
      [] o.name = "WithSeparatorColor" -> [q EXCEPT !.separatorColor = o.val]
      [] o.name = "WithPosition" -> [q EXCEPT !.position = o.val]
      [] o.name = "WithFailSymbol" -> [q EXCEPT !.failSymbol = o.val]
      [] o.name = "WithFailSymbolColor" -> [q EXCEPT !.failSymbolColor = o.val]
      [] o.name = "WithFailColor" -> [q EXCEPT !.failColor = o.val]
      [] o.name = "WithSpinnerFrames" -> [q EXCEPT !.frames = FramesOf(o.val)]
      [] o.name = "WithWriter" -> [q EXCEPT !.out = o.val]

\* for _, opt := range opts { opt(p) }
RECURSIVE ApplyOpts(_, _)
ApplyOpts(q, opts) ==
    IF opts = <<>> THEN q
    ELSE ApplyOpts(ApplyOpt(q, Head(opts)), Tail(opts))

\* mutant of New: the options are applied in the reverse order
New_ReverseOrder(m, opts) ==
    ApplyOpts([frames |-> defaultFrames,
               message |-> m,
               spinnerColor |-> "ColorDefault",
               textColor |-> "ColorDefault",
               doneSymbol |-> "CHECK",
               doneSymbolColor |-> "ColorGreen",
               failSymbol |-> "CROSS",
               failSymbolColor |-> "ColorRed",
               failColor |-> "ColorDefault",
               prefix |-> "",
               prefixColor |-> "ColorDefault",
               separator |-> ">",
               separatorColor |-> "ColorWhite",
               position |-> "PositionLeft",
               out |-> "stdout"],
              [i \in 1..Len(opts) |-> opts[Len(opts) + 1 - i]])

\* New(message, opts...): the defaults, then the options in the order given
New(m, opts) ==
    ApplyOpts([frames |-> defaultFrames,
               message |-> m,
               spinnerColor |-> "ColorDefault",
               textColor |-> "ColorDefault",
               doneSymbol |-> "CHECK",
               doneSymbolColor |-> "ColorGreen",
               failSymbol |-> "CROSS",
               failSymbolColor |-> "ColorRed",
               failColor |-> "ColorDefault",
               prefix |-> "",
               prefixColor |-> "ColorDefault",
               separator |-> ">",
               separatorColor |-> "ColorWhite",
               position |-> "PositionLeft",
               out |-> "stdout"], opts)

\* ------------------------------------------------------------ rendering

\* a string as a sequence of pieces: the empty string contributes nothing
Str(x) == IF x = "" THEN <<>> ELSE <<x>>

\* Color.getColorCode
getColorCode(c) ==
    CASE c = "ColorBlack" -> "\\033[30m"
      [] c = "ColorRed" -> "\\033[31m"
      [] c = "ColorGreen" -> "\\033[32m"
      [] c = "ColorYellow" -> "\\033[33m"
      [] c = "ColorBlue" -> "\\033[34m"
      [] c = "ColorMagenta" -> "\\033[35m"
      [] c = "ColorCyan" -> "\\033[36m"
      [] c = "ColorGray" -> "\\033[90m"
      [] c = "ColorWhite" -> "\\033[37m"
      [] OTHER -> ""

reset == "\\033[0m"
ClearLine == "\\r\\033[K"
Newline == "\\n"

\* mutant of buildPrefixPart: the separator is rendered without a prefix too
buildPrefixPart_AlwaysSeparator(q) ==
    Str(getColorCode(q.prefixColor)) \o Str(q.prefix) \o <<reset, " ">>
    \o Str(getColorCode(q.separatorColor)) \o Str(q.separator) \o <<reset, " ">>

\* Pin.buildPrefixPart: "%s%s%s %s%s%s "
buildPrefixPart(q) ==
    IF q.prefix = "" THEN <<>>
    ELSE Str(getColorCode(q.prefixColor)) \o Str(q.prefix) \o <<reset, " ">>
         \o Str(getColorCode(q.separatorColor)) \o Str(q.separator) \o <<reset, " ">>

\* the text of one frame: the format and arguments of the ticker branch, with
\* glyph the value of p.frames[p.current]
frameText(q, glyph, msg) ==
    IF q.position = "PositionLeft"
    THEN <<ClearLine>> \o buildPrefixPart(q)
         \o Str(getColorCode(q.spinnerColor)) \o <<glyph, reset, " ">>
         \o Str(getColorCode(q.textColor)) \o Str(msg) \o <<reset>>
    ELSE <<ClearLine>> \o buildPrefixPart(q)
         \o Str(getColorCode(q.textColor)) \o Str(msg) \o <<reset, " ">>
         \o Str(getColorCode(q.spinnerColor)) \o <<glyph, reset, " ">>

\* the color code printResult gives the message text
msgColorCode(q, symbol) ==
    IF symbol = q.failSymbol /\ q.failColor # "ColorDefault"
    THEN getColorCode(q.failColor)
    ELSE getColorCode(q.textColor)

\* mutant of printResult: the symbol always comes before the message
printResult_IgnoresPosition(q, msg, symbol, symbolColor) ==
    buildPrefixPart(q)
    \o Str(getColorCode(symbolColor)) \o <<symbol, reset, " ">>
    \o Str(msgColorCode(q, symbol)) \o Str(msg) \o <<reset, Newline>>

\* Pin.printResult(msg, symbol, symbolColor)
printResult(q, msg, symbol, symbolColor) ==
    IF q.position = "PositionLeft"
    THEN buildPrefixPart(q)
         \o Str(getColorCode(symbolColor)) \o <<symbol, reset, " ">>
         \o Str(msgColorCode(q, symbol)) \o Str(msg) \o <<reset, Newline>>
    ELSE buildPrefixPart(q)
         \o Str(msgColorCode(q, symbol)) \o Str(msg) \o <<reset, " ">>
         \o Str(getColorCode(symbolColor)) \o <<symbol, reset, Newline>>

\* what the write w (an element of out) sends: fmt.Println for "line",
\* fmt.Printf of the frame for "frame", fmt.Print of the line-clear sequence
\* for "clear", printResult with the symbol of Stop or of Fail for "final"
Text(w) ==
    CASE w.k = "line" -> Str(w.msg) \o <<Newline>>
      [] w.k = "frame" -> frameText(pin, pin.frames[w.g + 1], w.msg)
      [] w.k = "clear" -> <<ClearLine>>
      [] w.k = "final" ->
            IF w.op = "Stop"
            THEN printResult(pin, w.msg, pin.doneSymbol, pin.doneSymbolColor)
            ELSE printResult(pin, w.msg, pin.failSymbol, pin.failSymbolColor)

\* where the write w goes: fmt.Print, fmt.Printf and fmt.Println write to
\* os.Stdout
Sink(w) == "stdout"

\* an animation goroutine has panicked: the process is gone
Panicked == \E t \in DOMAIN tasks : tasks[t].pc = "panic"

\* ------------------------------------------------------------------- New

\* the state after p := New(m, opts...), with p.out a writer of kind k
Constructed(m, opts, k) ==
    /\ newArgs = [message |-> m, opts |-> opts]
    /\ pin = [f \in DOMAIN New(m, opts) \ {"message"} |-> New(m, opts)[f]]
    /\ message = New(m, opts).message
    /\ outKind = k
    /\ nFlips = 0
    /\ isRunning = FALSE
    /\ current = 0
    /\ stopChan = 0
    /\ wg = 0
    /\ messageMu = [w |-> FALSE, r |-> 0]
    /\ cancelled = [x \in Ctxs |-> FALSE]
    /\ tasks = <<>>
    /\ callers = [c \in Callers |-> Idle]
    /\ cancelFns = <<>>
    /\ out = <<>>
    /\ nStarts = 0 /\ nStops = 0 /\ nUpdates = 0 /\ nTicks = 0 /\ nCancels = 0

\* a Spinner writing to a bytes.Buffer
Init ==
    /\ ForceInteractive \in BOOLEAN
    /\ \E m \in InitMsgs, k \in OutKinds :
          Constructed(m, <<[name |-> "WithWriter", val |-> "buffer"]>>, k)

\* a Spinner constructed with any options, writing to any kind of writer
OptInit ==
    /\ ForceInteractive \in BOOLEAN
    /\ \E m \in CtorMsgs, opts \in OptSeqs :
          \E k \in KindsOf(New(m, opts).out) : Constructed(m, opts, k)

\* ----------------------------------------------------------------- Start

\* mutant of StartCheck: Start does not test p.isRunning
StartCheck_NoGuard(c, x) ==
    /\ callers[c].pc = "idle"
    /\ nStarts < MaxStarts
    /\ nStarts' = nStarts + 1
    /\ callers' = [callers EXCEPT ![c] = [Idle EXCEPT !.pc = "st_term", !.op = "Start", !.ctx = x]]
    /\ UNCHANGED <<config, isRunning, message, current, stopChan, wg, messageMu,
                   cancelled, tasks, cancelFns, out, nStops, nUpdates, nTicks, nCancels>>

\* if p.isRunning { return func() {} }
StartCheck(c, x) ==
    /\ callers[c].pc = "idle"
    /\ nStarts < MaxStarts
    /\ nStarts' = nStarts + 1
    /\ IF isRunning
       THEN /\ cancelFns' = Append(cancelFns, [kind |-> "inert", task |-> 0, calls |-> 0, noop |-> TRUE])
            /\ UNCHANGED callers
       ELSE /\ callers' = [callers EXCEPT ![c] = [Idle EXCEPT !.pc = "st_term", !.op = "Start", !.ctx = x]]
            /\ UNCHANGED cancelFns
    /\ UNCHANGED <<config, isRunning, message, current, stopChan, wg, messageMu,
                   cancelled, tasks, out, nStops, nUpdates, nTicks, nCancels>>

\* mutant of StartSetRunning: the interactive path does not set p.isRunning
StartSetRunning_NonTerminalOnly(c) ==
    /\ callers[c].pc = "st_term"
    /\ isRunning' = IF Interactive THEN isRunning ELSE TRUE
    /\ callers' = [callers EXCEPT ![c].pc = IF Interactive THEN "st_i_add" ELSE "st_n_rlock"]
    /\ UNCHANGED <<config, message, current, stopChan, wg, messageMu, cancelled,
                   tasks, cancelFns, out, counters>>

\* if !isTerminal(p.out) { p.isRunning = true ... } ... p.isRunning = true
StartSetRunning(c) ==
    /\ callers[c].pc = "st_term"
    /\ isRunning' = TRUE
    /\ callers' = [callers EXCEPT ![c].pc = IF Interactive THEN "st_i_add" ELSE "st_n_rlock"]
    /\ UNCHANGED <<config, message, current, stopChan, wg, messageMu, cancelled,
                   tasks, cancelFns, out, counters>>

\* mutant of StartRLock: Start reads p.message without taking the lock
StartRLock_NoLock(c) ==
    /\ callers[c].pc = "st_n_rlock"
    /\ callers' = [callers EXCEPT ![c].pc = "st_n_runlock", ![c].msg = message]
    /\ UNCHANGED <<config, isRunning, message, current, stopChan, wg, messageMu,
                   cancelled, tasks, cancelFns, out, counters>>

\* p.messageMu.RLock(); msg := p.message   (one step: while the read lock
\* is held no writer can change p.message, so the read sees the same value
\* at any moment between RLock and RUnlock)
StartRLock(c) ==
    /\ callers[c].pc = "st_n_rlock"
    /\ ~messageMu.w
    /\ messageMu' = [messageMu EXCEPT !.r = @ + 1]
    /\ callers' = [callers EXCEPT ![c].pc = "st_n_runlock", ![c].msg = message]
    /\ UNCHANGED <<config, isRunning, message, current, stopChan, wg, cancelled,
                   tasks, cancelFns, out, counters>>

\* p.messageMu.RUnlock()
StartRUnlock(c) ==
    /\ callers[c].pc = "st_n_runlock"
    /\ messageMu' = [messageMu EXCEPT !.r = @ - 1]
    /\ callers' = [callers EXCEPT ![c].pc = "st_n_print"]
    /\ UNCHANGED <<config, isRunning, message, current, stopChan, wg, cancelled,
                   tasks, cancelFns, out, counters>>

\* fmt.Println(msg)
StartPrint(c) ==
    /\ callers[c].pc = "st_n_print"
    /\ out' = Append(out, Write("line", 0, callers[c].msg, -1, "Start"))
    /\ callers' = [callers EXCEPT ![c].pc = "st_n_go"]
    /\ UNCHANGED <<config, isRunning, message, current, stopChan, wg, messageMu,
                   cancelled, tasks, cancelFns, counters>>

\* go func() { <-ctx.Done(); p.isRunning = false }(); return func() {}
StartGoWaiter(c) ==
    /\ callers[c].pc = "st_n_go"
    /\ tasks' = Append(tasks, [kind |-> "waiter", pc |-> "wait", parent |-> callers[c].ctx,
                               own |-> FALSE, msg |-> "", cur |-> 0, born |-> nStops])
    /\ cancelFns' = Append(cancelFns, [kind |-> "inert", task |-> 0, calls |-> 0, noop |-> FALSE])
    /\ callers' = [callers EXCEPT ![c] = Idle]
    /\ UNCHANGED <<config, isRunning, message, current, stopChan, wg, messageMu,
                   cancelled, out, counters>>

\* mutant of StartAdd: Start does not register the task with p.wg
StartAdd_NoAdd(c) ==
    /\ callers[c].pc = "st_i_add"
    /\ callers' = [callers EXCEPT ![c].pc = "st_i_go"]
    /\ UNCHANGED <<config, isRunning, message, current, stopChan, wg, messageMu,
                   cancelled, tasks, cancelFns, out, counters>>

\* ctx, cancel := context.WithCancel(ctx); ticker := ...; p.wg.Add(1)
StartAdd(c) ==
    /\ callers[c].pc = "st_i_add"
    /\ wg' = wg + 1
    /\ callers' = [callers EXCEPT ![c].pc = "st_i_go"]
    /\ UNCHANGED <<config, isRunning, message, current, stopChan, messageMu,
                   cancelled, tasks, cancelFns, out, counters>>

\* mutant of StartGoAnim: Start prints the message before it returns
StartGoAnim_PrintsMessage(c) ==
    /\ callers[c].pc = "st_i_go"
    /\ tasks' = Append(tasks, [kind |-> "anim", pc |-> "select", parent |-> callers[c].ctx,
                               own |-> FALSE, msg |-> "", cur |-> 0, born |-> nStops])
    /\ cancelFns' = Append(cancelFns, [kind |-> "cancel", task |-> Len(tasks) + 1, calls |-> 0, noop |-> FALSE])
    /\ out' = Append(out, Write("line", 0, message, -1, "Start"))
    /\ callers' = [callers EXCEPT ![c] = Idle]
    /\ UNCHANGED <<config, isRunning, message, current, stopChan, wg, messageMu,
                   cancelled, counters>>

\* go func() { ... }(); return cancel
StartGoAnim(c) ==
    /\ callers[c].pc = "st_i_go"
    /\ tasks' = Append(tasks, [kind |-> "anim", pc |-> "select", parent |-> callers[c].ctx,
                               own |-> FALSE, msg |-> "", cur |-> 0, born |-> nStops])
    /\ cancelFns' = Append(cancelFns, [kind |-> "cancel", task |-> Len(tasks) + 1, calls |-> 0, noop |-> FALSE])
    /\ callers' = [callers EXCEPT ![c] = Idle]
    /\ UNCHANGED <<config, isRunning, message, current, stopChan, wg, messageMu,
                   cancelled, out, counters>>

\* ----------------------------------------------------------- Stop / Fail

\* mutant of StopHandleNonTerminal: the non-terminal path prints the final
\* line with its symbol, as printResult does
StopHandleNonTerminal_Symbol(c, op, arg) ==
    /\ callers[c].pc = "idle"
    /\ nStops < MaxStops
    /\ nStops' = nStops + 1
    /\ IF ~Interactive
       THEN /\ out' = IF arg # NoMsg
                      THEN Append(out, Write("final", 0, arg, -1, op))
                      ELSE out
            /\ UNCHANGED callers
       ELSE /\ callers' = [callers EXCEPT ![c] = [Idle EXCEPT !.pc = "sp_check", !.op = op, !.arg = arg]]
            /\ UNCHANGED out
    /\ UNCHANGED <<config, isRunning, message, current, stopChan, wg, messageMu,
                   cancelled, tasks, cancelFns, nStarts, nUpdates, nTicks, nCancels>>

\* handleNonTerminal(message...): on a non-terminal print message[0] (if any)
\* and report true, so that Stop/Fail returns at once.
StopHandleNonTerminal(c, op, arg) ==
    /\ callers[c].pc = "idle"
    /\ nStops < MaxStops
    /\ nStops' = nStops + 1
    /\ IF ~Interactive
       THEN /\ out' = IF arg # NoMsg
                      THEN Append(out, Write("line", 0, arg, -1, op))
                      ELSE out
            /\ UNCHANGED callers
       ELSE /\ callers' = [callers EXCEPT ![c] = [Idle EXCEPT !.pc = "sp_check", !.op = op, !.arg = arg]]
            /\ UNCHANGED out
    /\ UNCHANGED <<config, isRunning, message, current, stopChan, wg, messageMu,
                   cancelled, tasks, cancelFns, nStarts, nUpdates, nTicks, nCancels>>

\* if !p.isRunning { return }
StopCheck(c) ==
    /\ callers[c].pc = "sp_check"
    /\ callers' = IF isRunning
                  THEN [callers EXCEPT ![c].pc = "sp_clear", ![c].found = TRUE]
                  ELSE [callers EXCEPT ![c] = Idle]
    /\ UNCHANGED <<config, isRunning, message, current, stopChan, wg, messageMu,
                   cancelled, tasks, cancelFns, out, counters>>

\* mutant of StopClearRunning: Stop/Fail also resets the frame index
StopClearRunning_ResetsIndex(c) ==
    /\ callers[c].pc = "sp_clear"
    /\ isRunning' = FALSE
    /\ current' = 0
    /\ callers' = [callers EXCEPT ![c].pc = "sp_send"]
    /\ UNCHANGED <<config, message, stopChan, wg, messageMu, cancelled,
                   tasks, cancelFns, out, counters>>

\* p.isRunning = false
StopClearRunning(c) ==
    /\ callers[c].pc = "sp_clear"
    /\ isRunning' = FALSE
    /\ callers' = [callers EXCEPT ![c].pc = "sp_send"]
    /\ UNCHANGED <<config, message, current, stopChan, wg, messageMu, cancelled,
                   tasks, cancelFns, out, counters>>

\* p.stopChan <- struct{}{}   (blocks while the buffer is full)
StopSend(c) ==
    /\ callers[c].pc = "sp_send"
    /\ stopChan < StopChanCap
    /\ stopChan' = stopChan + 1
    /\ callers' = [callers EXCEPT ![c].pc = "sp_wait"]
    /\ UNCHANGED <<config, isRunning, message, current, wg, messageMu, cancelled,
                   tasks, cancelFns, out, counters>>

\* mutant of StopWait: Stop/Fail does not wait for the animation task
StopWait_NoWait(c) ==
    /\ callers[c].pc = "sp_wait"
    /\ callers' = [callers EXCEPT ![c].pc = "sp_clearline"]
    /\ UNCHANGED <<config, isRunning, message, current, stopChan, wg, messageMu,
                   cancelled, tasks, cancelFns, out, counters>>

\* p.wg.Wait()   (blocks until the counter is zero)
StopWait(c) ==
    /\ callers[c].pc = "sp_wait"
    /\ wg = 0
    /\ callers' = [callers EXCEPT ![c].pc = "sp_clearline"]
    /\ UNCHANGED <<config, isRunning, message, current, stopChan, wg, messageMu,
                   cancelled, tasks, cancelFns, out, counters>>

\* mutant of StopClearLine: the result line is printed also without a message
StopClearLine_AlwaysResult(c) ==
    /\ callers[c].pc = "sp_clearline"
    /\ out' = Append(out, Write("clear", 0, "", -1, callers[c].op))
    /\ callers' = [callers EXCEPT ![c].pc = "sp_result"]
    /\ UNCHANGED <<config, isRunning, message, current, stopChan, wg, messageMu,
                   cancelled, tasks, cancelFns, counters>>

\* fmt.Print("\r\033[K"); if len(message) == 0, the method returns
StopClearLine(c) ==
    /\ callers[c].pc = "sp_clearline"
    /\ out' = Append(out, Write("clear", 0, "", -1, callers[c].op))
    /\ callers' = IF callers[c].arg = NoMsg
                  THEN [callers EXCEPT ![c] = Idle]
                  ELSE [callers EXCEPT ![c].pc = "sp_result"]
    /\ UNCHANGED <<config, isRunning, message, current, stopChan, wg, messageMu,
                   cancelled, tasks, cancelFns, counters>>

\* p.printResult(message[0], symbol, symbolColor)
StopPrintResult(c) ==
    /\ callers[c].pc = "sp_result"
    /\ out' = Append(out, Write("final", 0, callers[c].arg, -1, callers[c].op))
    /\ callers' = [callers EXCEPT ![c] = Idle]
    /\ UNCHANGED <<config, isRunning, message, current, stopChan, wg, messageMu,
                   cancelled, tasks, cancelFns, counters>>

\* --------------------------------------------------------- UpdateMessage

\* mutant of UpdateLock: UpdateMessage stores the message only while running
UpdateLock_OnlyWhenRunning(c, m) ==
    /\ callers[c].pc = "idle"
    /\ nUpdates < MaxUpdates
    /\ nUpdates' = nUpdates + 1
    /\ ~messageMu.w /\ messageMu.r = 0
    /\ messageMu' = [messageMu EXCEPT !.w = TRUE]
    /\ message' = IF isRunning THEN m ELSE message
    /\ callers' = [callers EXCEPT ![c] = [Idle EXCEPT !.pc = "um_unlock", !.op = "UpdateMessage", !.arg = m,
                                                      !.found = isRunning]]
    /\ UNCHANGED <<config, isRunning, current, stopChan, wg, cancelled,
                   tasks, cancelFns, out, nStarts, nStops, nTicks, nCancels>>

\* p.messageMu.Lock(); p.message = message   (one step: while the write lock
\* is held nobody else reads or writes p.message)
UpdateLock(c, m) ==
    /\ callers[c].pc = "idle"
    /\ nUpdates < MaxUpdates
    /\ nUpdates' = nUpdates + 1
    /\ ~messageMu.w /\ messageMu.r = 0
    /\ messageMu' = [messageMu EXCEPT !.w = TRUE]
    /\ message' = m
    /\ callers' = [callers EXCEPT ![c] = [Idle EXCEPT !.pc = "um_unlock", !.op = "UpdateMessage", !.arg = m,
                                                      !.found = isRunning]]
    /\ UNCHANGED <<config, isRunning, current, stopChan, wg, cancelled,
                   tasks, cancelFns, out, nStarts, nStops, nTicks, nCancels>>

\* p.messageMu.Unlock()
UpdateUnlock(c) ==
    /\ callers[c].pc = "um_unlock"
    /\ messageMu' = [messageMu EXCEPT !.w = FALSE]
    /\ callers' = [callers EXCEPT ![c].pc = "um_print"]
    /\ UNCHANGED <<config, isRunning, message, current, stopChan, wg, cancelled,
                   tasks, cancelFns, out, counters>>

\* mutant of UpdatePrint: UpdateMessage prints only while running
UpdatePrint_OnlyWhenRunning(c) ==
    /\ callers[c].pc = "um_print"
    /\ out' = IF ~Interactive /\ isRunning
              THEN Append(out, Write("line", 0, callers[c].arg, -1, "UpdateMessage"))
              ELSE out
    /\ callers' = [callers EXCEPT ![c] = Idle]
    /\ UNCHANGED <<config, isRunning, message, current, stopChan, wg, messageMu,
                   cancelled, tasks, cancelFns, counters>>

\* if !isTerminal(p.out) { fmt.Println(message) }
UpdatePrint(c) ==
    /\ callers[c].pc = "um_print"
    /\ out' = IF ~Interactive
              THEN Append(out, Write("line", 0, callers[c].arg, -1, "UpdateMessage"))
              ELSE out
    /\ callers' = [callers EXCEPT ![c] = Idle]
    /\ UNCHANGED <<config, isRunning, message, current, stopChan, wg, messageMu,
                   cancelled, tasks, cancelFns, counters>>

\* ------------------------------------------- the goroutines of Start

\* mutant of WaiterDone: the non-interactive goroutine clears the line as the
\* animation goroutine does
WaiterDone_ClearsLine(t) ==
    /\ t \in DOMAIN tasks
    /\ tasks[t].kind = "waiter" /\ tasks[t].pc = "wait"
    /\ ParentDone(tasks[t].parent)
    /\ isRunning' = FALSE
    /\ out' = Append(out, Write("clear", t, "", -1, "cancel"))
    /\ tasks' = [tasks EXCEPT ![t].pc = "done"]
    /\ UNCHANGED <<config, message, current, stopChan, wg, messageMu, cancelled,
                   callers, cancelFns, counters>>

\* non-interactive path: <-ctx.Done(); p.isRunning = false
WaiterDone(t) ==
    /\ t \in DOMAIN tasks
    /\ tasks[t].kind = "waiter" /\ tasks[t].pc = "wait"
    /\ ParentDone(tasks[t].parent)
    /\ isRunning' = FALSE
    /\ tasks' = [tasks EXCEPT ![t].pc = "done"]
    /\ UNCHANGED <<config, message, current, stopChan, wg, messageMu, cancelled,
                   callers, cancelFns, out, counters>>

\* mutant of AnimStop: the task clears p.isRunning when it receives the signal
AnimStop_ClearsRunning(t) ==
    /\ t \in DOMAIN tasks
    /\ tasks[t].kind = "anim" /\ tasks[t].pc = "select"
    /\ stopChan > 0
    /\ stopChan' = stopChan - 1
    /\ isRunning' = FALSE
    /\ tasks' = [tasks EXCEPT ![t].pc = "exit"]
    /\ UNCHANGED <<config, message, current, wg, messageMu, cancelled,
                   callers, cancelFns, out, counters>>

\* case <-p.stopChan: return
AnimStop(t) ==
    /\ t \in DOMAIN tasks
    /\ tasks[t].kind = "anim" /\ tasks[t].pc = "select"
    /\ stopChan > 0
    /\ stopChan' = stopChan - 1
    /\ tasks' = [tasks EXCEPT ![t].pc = "exit"]
    /\ UNCHANGED <<config, isRunning, message, current, wg, messageMu, cancelled,
                   callers, cancelFns, out, counters>>

\* case <-ctx.Done(): p.isRunning = false
AnimCtxDone(t) ==
    /\ t \in DOMAIN tasks
    /\ tasks[t].kind = "anim" /\ tasks[t].pc = "select"
    /\ Done(t)
    /\ isRunning' = FALSE
    /\ tasks' = [tasks EXCEPT ![t].pc = "cx_print"]
    /\ UNCHANGED <<config, message, current, stopChan, wg, messageMu, cancelled,
                   callers, cancelFns, out, counters>>

\* fmt.Print("\r\033[K"); return
AnimCtxPrint(t) ==
    /\ t \in DOMAIN tasks
    /\ tasks[t].pc = "cx_print"
    /\ out' = Append(out, Write("clear", t, "", -1, "cancel"))
    /\ tasks' = [tasks EXCEPT ![t].pc = "exit"]
    /\ UNCHANGED <<config, isRunning, message, current, stopChan, wg, messageMu,
                   cancelled, callers, cancelFns, counters>>

\* mutant of AnimTick: the tick does not read p.message
AnimTick_NoRead(t) ==
    /\ t \in DOMAIN tasks
    /\ tasks[t].kind = "anim" /\ tasks[t].pc = "select"
    /\ nTicks < MaxTicks
    /\ nTicks' = nTicks + 1
    /\ ~messageMu.w
    /\ messageMu' = [messageMu EXCEPT !.r = @ + 1]
    /\ tasks' = [tasks EXCEPT ![t].pc = "tk_runlock"]
    /\ UNCHANGED <<config, isRunning, message, current, stopChan, wg, cancelled,
                   callers, cancelFns, out, nStarts, nStops, nUpdates, nCancels>>

\* case <-ticker.C: ...; p.messageMu.RLock(); message := p.message
AnimTick(t) ==
    /\ t \in DOMAIN tasks
    /\ tasks[t].kind = "anim" /\ tasks[t].pc = "select"
    /\ nTicks < MaxTicks
    /\ nTicks' = nTicks + 1
    /\ ~messageMu.w
    /\ messageMu' = [messageMu EXCEPT !.r = @ + 1]
    /\ tasks' = [tasks EXCEPT ![t].pc = "tk_runlock", ![t].msg = message]
    /\ UNCHANGED <<config, isRunning, message, current, stopChan, wg, cancelled,
                   callers, cancelFns, out, nStarts, nStops, nUpdates, nCancels>>

\* p.messageMu.RUnlock()
AnimRUnlock(t) ==
    /\ t \in DOMAIN tasks
    /\ tasks[t].pc = "tk_runlock"
    /\ messageMu' = [messageMu EXCEPT !.r = @ - 1]
    /\ tasks' = [tasks EXCEPT ![t].pc = "tk_print"]
    /\ UNCHANGED <<config, isRunning, message, current, stopChan, wg, cancelled,
                   callers, cancelFns, out, counters>>

\* fmt.Printf(format, args...) with p.frames[p.current]; indexing p.frames
\* outside its length panics
AnimPrint(t) ==
    /\ t \in DOMAIN tasks
    /\ tasks[t].pc = "tk_print"
    /\ IF current < Len(pin.frames)
       THEN /\ out' = Append(out, Write("frame", t, tasks[t].msg, current, "tick"))
            /\ tasks' = [tasks EXCEPT ![t].pc = "tk_adv", ![t].msg = ""]
       ELSE \* p.frames[p.current]: index out of range
            /\ tasks' = [tasks EXCEPT ![t].pc = "panic", ![t].msg = ""]
            /\ UNCHANGED out
    /\ UNCHANGED <<config, isRunning, message, current, stopChan, wg, messageMu,
                   cancelled, callers, cancelFns, counters>>

\* p.current = (p.current + 1) % len(p.frames): the read of p.current
AnimAdvanceRead(t) ==
    /\ t \in DOMAIN tasks
    /\ tasks[t].pc = "tk_adv"
    /\ tasks' = [tasks EXCEPT ![t].pc = "tk_store", ![t].cur = current]
    /\ UNCHANGED <<config, isRunning, message, current, stopChan, wg, messageMu,
                   cancelled, callers, cancelFns, out, counters>>

\* mutant of AnimAdvanceStore: the index is advanced without the modulo
AnimAdvanceStore_NoModulo(t) ==
    /\ t \in DOMAIN tasks
    /\ tasks[t].pc = "tk_store"
    /\ current' = tasks[t].cur + 1
    /\ tasks' = [tasks EXCEPT ![t].pc = "select", ![t].cur = 0]
    /\ UNCHANGED <<config, isRunning, message, stopChan, wg, messageMu,
                   cancelled, callers, cancelFns, out, counters>>

\* p.current = (p.current + 1) % len(p.frames): the store
AnimAdvanceStore(t) ==
    /\ t \in DOMAIN tasks
    /\ tasks[t].pc = "tk_store"
    /\ current' = (tasks[t].cur + 1) % Len(pin.frames)
    /\ tasks' = [tasks EXCEPT ![t].pc = "select", ![t].cur = 0]
    /\ UNCHANGED <<config, isRunning, message, stopChan, wg, messageMu,
                   cancelled, callers, cancelFns, out, counters>>

\* mutant of AnimExit: a task that returns resets the frame index
AnimExit_ResetsIndex(t) ==
    /\ t \in DOMAIN tasks
    /\ tasks[t].pc = "exit"
    /\ wg' = wg - 1
    /\ current' = 0
    /\ tasks' = [tasks EXCEPT ![t].pc = "done", ![t].msg = ""]
    /\ UNCHANGED <<config, isRunning, message, stopChan, messageMu,
                   cancelled, callers, cancelFns, out, counters>>

\* the deferred p.wg.Done() and ticker.Stop()
AnimExit(t) ==
    /\ t \in DOMAIN tasks
    /\ tasks[t].pc = "exit"
    /\ wg' = wg - 1
    /\ tasks' = [tasks EXCEPT ![t].pc = "done", ![t].msg = ""]
    /\ UNCHANGED <<config, isRunning, message, current, stopChan, messageMu,
                   cancelled, callers, cancelFns, out, counters>>

\* ------------------------------------------------------- cancellation

\* the caller cancels a context it passed (or will pass) to Start
CancelCtx(x) ==
    /\ ~cancelled[x]
    /\ cancelled' = [cancelled EXCEPT ![x] = TRUE]
    /\ UNCHANGED <<config, isRunning, message, current, stopChan, wg, messageMu,
                   tasks, callers, cancelFns, out, counters>>

\* mutant of InvokeCancel: the returned function also clears p.isRunning
InvokeCancel_ClearsRunning(c, h) ==
    /\ callers[c].pc = "idle"
    /\ h \in DOMAIN cancelFns
    /\ nCancels < MaxCancels
    /\ nCancels' = nCancels + 1
    /\ cancelFns' = [cancelFns EXCEPT ![h].calls = @ + 1]
    /\ isRunning' = FALSE
    /\ tasks' = IF cancelFns[h].kind = "cancel"
                THEN [tasks EXCEPT ![cancelFns[h].task].own = TRUE]
                ELSE tasks
    /\ UNCHANGED <<config, message, current, stopChan, wg, messageMu,
                   cancelled, callers, out, nStarts, nStops, nUpdates, nTicks>>

\* caller c invokes the h-th cancel function Start returned: func() {} does
\* nothing, the cancel of context.WithCancel marks the derived context done
InvokeCancel(c, h) ==
    /\ callers[c].pc = "idle"
    /\ h \in DOMAIN cancelFns
    /\ nCancels < MaxCancels
    /\ nCancels' = nCancels + 1
    /\ cancelFns' = [cancelFns EXCEPT ![h].calls = @ + 1]
    /\ tasks' = IF cancelFns[h].kind = "cancel"
                THEN [tasks EXCEPT ![cancelFns[h].task].own = TRUE]
                ELSE tasks
    /\ UNCHANGED <<config, isRunning, message, current, stopChan, wg, messageMu,
                   cancelled, callers, out, nStarts, nStops, nUpdates, nTicks>>

\* ------------------------------------------------------ specifications
StartStep(c) ==
    \/ \E x \in Ctxs \cup {Background} : StartCheck(c, x)
    \/ StartSetRunning(c)
    \/ StartRLock(c)
    \/ StartRUnlock(c)
    \/ StartPrint(c)
    \/ StartGoWaiter(c)
    \/ StartAdd(c)
    \/ StartGoAnim(c)

StopStep(c) ==
    \/ \E op \in {"Stop", "Fail"}, arg \in FinalArgs : StopHandleNonTerminal(c, op, arg)
    \/ StopCheck(c)
    \/ StopClearRunning(c)
    \/ StopSend(c)
    \/ StopWait(c)
    \/ StopClearLine(c)
    \/ StopPrintResult(c)

UpdateStep(c) ==
    \/ \E m \in Msgs : UpdateLock(c, m)
    \/ UpdateUnlock(c)
    \/ UpdatePrint(c)

CancelStep(c) == \E h \in 1..MaxStarts : InvokeCancel(c, h)

CallerStep(c) == StartStep(c) \/ StopStep(c) \/ UpdateStep(c) \/ CancelStep(c)

TaskStep(t) ==
    \/ WaiterDone(t)
    \/ AnimStop(t)
    \/ AnimCtxDone(t)
    \/ AnimCtxPrint(t)
    \/ AnimTick(t)
    \/ AnimRUnlock(t)
    \/ AnimPrint(t)
    \/ AnimAdvanceRead(t)
    \/ AnimAdvanceStore(t)
    \/ AnimExit(t)

EnvStep == \E x \in Ctxs : CancelCtx(x)

\* one caller thread, the goroutines it starts, and cancellations
Next ==
    \/ \E c \in MainOnly : CallerStep(c)
    \/ \E t \in 1..MaxStarts : TaskStep(t)
    \/ EnvStep

Spec == Init /\ [][Next]_vars

\* the Go scheduler runs every runnable goroutine eventually, and the ticker
\* keeps firing: a task that can take a step eventually takes one
TaskFairness == \A t \in 1..MaxStarts : WF_vars(TaskStep(t))

\* a caller that holds the write lock of p.messageMu is runnable and releases
\* it: UpdateMessage has nothing to wait for between Lock and Unlock
LockFairness == \A c \in MainOnly : WF_vars(UpdateUnlock(c))

\* the behaviours of Spec with at most MaxFairStops Stop/Fail calls and
\* MaxFairCancels invocations of cancel functions, scheduled fairly
NextFair == Next /\ nStops' <= MaxFairStops /\ nCancels' <= MaxFairCancels

FairSpec == Init /\ [][NextFair]_vars /\ TaskFairness /\ LockFairness

\* two caller threads: "main" starts the spinner, "main" and "other" call
\* Stop/Fail, interleaved statement by statement
NextStops ==
    \/ \E c \in MainOnly : StartStep(c) /\ nStarts' <= MaxStopsStarts
    \/ \E c \in Callers : StopStep(c)
    \/ \E t \in 1..MaxStarts : TaskStep(t)
    \/ EnvStep

SpecStops == Init /\ [][NextStops]_vars

\* the caller assigns the package variable ForceInteractive between two calls
SetForceInteractive(c, b) ==
    /\ callers[c].pc = "idle"
    /\ nFlips < MaxFlips
    /\ nFlips' = nFlips + 1
    /\ ForceInteractive' = b
    /\ UNCHANGED <<outKind, pin, newArgs, isRunning, message, current, stopChan,
                   wg, messageMu, cancelled, tasks, callers, cancelFns, out,
                   counters>>

\* Start with a context nobody cancels
StartBackgroundStep(c) ==
    \/ StartCheck(c, Background)
    \/ StartSetRunning(c)
    \/ StartRLock(c)
    \/ StartRUnlock(c)
    \/ StartPrint(c)
    \/ StartGoWaiter(c)
    \/ StartAdd(c)
    \/ StartGoAnim(c)

\* the animation goroutine when its context is never done
AnimStep(t) ==
    \/ AnimStop(t)
    \/ AnimTick(t)
    \/ AnimRUnlock(t)
    \/ AnimPrint(t)
    \/ AnimAdvanceRead(t)
    \/ AnimAdvanceStore(t)
    \/ AnimExit(t)

\* one cycle of a Spinner constructed with any options; a panic of a goroutine
\* ends the process
NextOpt ==
    /\ ~Panicked
    /\ \/ \E c \in MainOnly : StartBackgroundStep(c) /\ nStarts' <= MaxOptStarts
       \/ \E c \in MainOnly : StopStep(c) /\ nStops' <= MaxOptStops
       \/ \E c \in MainOnly : UpdateStep(c)
       \/ \E t \in 1..MaxStarts : AnimStep(t)

OptSpec == OptInit /\ [][NextOpt]_vars

\* one cycle during which the caller may assign ForceInteractive
NextFlag ==
    \/ \E c \in MainOnly : StartBackgroundStep(c) /\ nStarts' <= MaxFlagStarts
    \/ \E c \in MainOnly : StopStep(c) /\ nStops' <= MaxFlagStops
    \/ \E c \in MainOnly : UpdateStep(c)
    \/ \E c \in MainOnly, b \in BOOLEAN : SetForceInteractive(c, b)
    \/ \E t \in 1..MaxStarts : AnimStep(t)

FlagSpec == Init /\ [][NextFlag]_vars

\* Spinners with short frame sequences (two glyphs, one glyph), so that the
\* index wraps within a few ticks
ShortFrames == {"ab", "x"}
TickInit ==
    /\ ForceInteractive \in BOOLEAN
    /\ \E m \in InitMsgs, n \in ShortFrames, k \in OutKinds :
          Constructed(m, <<[name |-> "WithSpinnerFrames", val |-> n]>>, k)

\* one caller thread that starts, stops and cancels (no UpdateMessage), the
\* goroutines it starts, and cancellations
NextTick ==
    \/ \E c \in MainOnly : StartStep(c) \/ StopStep(c) \/ CancelStep(c)
    \/ \E t \in 1..MaxStarts : TaskStep(t)
    \/ EnvStep
TickSpec == TickInit /\ [][NextTick]_vars

\* one caller thread that starts, stops and cancels and may assign
\* ForceInteractive between two calls, the goroutines it starts, and
\* cancellations
NextFlagCtx ==
    \/ \E c \in MainOnly : StartStep(c)
    \/ \E c \in MainOnly : StopStep(c) /\ nStops' <= MaxFlagCtxStops
    \/ \E c \in MainOnly : CancelStep(c) /\ nCancels' <= MaxFlagCtxCancels
    \/ \E c \in MainOnly, b \in BOOLEAN : SetForceInteractive(c, b)
    \/ \E t \in 1..MaxStarts : TaskStep(t)
    \/ EnvStep
FlagCtxSpec == Init /\ [][NextFlagCtx]_vars

TypeOK ==
    /\ isRunning \in BOOLEAN
    /\ message \in Msgs \cup InitMsgs \cup CtorMsgs
    /\ pin.frames # <<>> => current < Len(pin.frames)
    /\ current \in 0..(NumFrames - 1)
    /\ stopChan \in 0..StopChanCap
    /\ wg \in Nat

\* ------------------------------------------------------------- claims

Main == callers["main"]

StartPcs == {"st_term", "st_n_rlock", "st_n_runlock", "st_n_print", "st_n_go",
             "st_i_add", "st_i_go"}
StopPcs == {"sp_check", "sp_clear", "sp_send", "sp_wait", "sp_clearline", "sp_result"}

\* the step in which the Stop/Fail call of the caller returns on the
\* interactive path after having found the spinner running
StopReturnsFound ==
    /\ Main.pc \in {"sp_clearline", "sp_result"}
    /\ Main.found
    /\ callers'["main"].pc = "idle"

\* C1: in every reachable state at most one animation task of the Spinner is
\* alive (launched and not yet returned).
C1_AtMostOneAnimationTask == Cardinality(AnimAlive) <= 1

\* C2: on an interactive destination, when a Stop or Fail call that found the
\* spinner running returns, no animation task of the Spinner is alive.
C2_StopReturnsAfterTaskExit == [][StopReturnsFound => AnimAlive' = {}]_vars

\* a Stop/Fail that found the spinner running has returned, and the task it
\* stopped had been launched and has exited
C2_Witness ==
    /\ Main.pc = "idle"
    /\ \E i \in DOMAIN out : out[i].by = 0 /\ out[i].k = "clear"
    /\ \E t \in DOMAIN tasks : tasks[t].kind = "anim" /\ tasks[t].pc = "done"

\* C3: on an interactive destination, once Stop/Fail has written its
\* line-clear (and final line), no task launched before that write writes
\* anything (a frame, or the line-clear of a cancellation) after it.
C3_FinalLineIsLast ==
    \A i, j \in DOMAIN out :
        (i < j /\ out[i].by = 0 /\ out[i].k \in {"clear", "final"})
            => ~(out[j].by # 0 /\ out[j].by <= out[i].nt)

\* a frame was written, the context was cancelled while Stop was on its way,
\* and Stop(m) wrote the line-clear and the final line last
C3_Witness ==
    /\ Len(out) >= 3
    /\ out[Len(out)].k = "final" /\ out[Len(out)].by = 0
    /\ out[Len(out) - 1].k = "clear" /\ out[Len(out) - 1].by = 0
    /\ \E i \in DOMAIN out : out[i].k = "frame"
    /\ \E i \in DOMAIN out : out[i].k = "clear" /\ out[i].by # 0

\* the step in which a Stop/Fail call issued on a running spinner returns on
\* the non-interactive path (handleNonTerminal reported true)
StopReturnsNonTerminal ==
    /\ Main.pc = "idle"
    /\ nStops' = nStops + 1
    /\ ~Interactive
    /\ isRunning

\* C4: when a Stop or Fail call issued on a running spinner returns, the
\* running flag is false, on both kinds of destination.
C4_StopClearsRunning ==
    [][(StopReturnsFound \/ StopReturnsNonTerminal) => ~isRunning']_vars

\* the task of the most recent successful Start, once that Start has returned
LastTask == Len(tasks)
StartReturned == Main.pc \notin StartPcs /\ LastTask > 0

\* C5: after a Start on a non-running spinner has returned, the running flag
\* is false only if the context of that Start is done (it was cancelled before
\* or after the call) or a Stop/Fail call has been made since.
C5_RunningUntilStopOrCancel ==
    (StartReturned /\ ~isRunning)
        => (Done(LastTask) \/ nStops > tasks[LastTask].born)

\* Start has returned with a live context, a tick has rendered a frame and an
\* UpdateMessage call has completed: the flag is still true
C5_Witness ==
    /\ StartReturned /\ Main.pc = "idle"
    /\ ~Done(LastTask) /\ nStops = tasks[LastTask].born
    /\ nUpdates > 0 /\ message = "Updated"
    /\ \E i \in DOMAIN out : out[i].k = "frame"
    /\ isRunning

spinnerState == <<isRunning, message, current, stopChan, wg, messageMu, tasks>>

\* C6: a Start call that finds the spinner running returns at once with an
\* inert cancel function, launching nothing, writing nothing and changing no
\* field; invoking a cancel function so obtained changes nothing either.
C6_StartWhileRunningIsNoOp ==
    [][ /\ (Main.pc = "idle" /\ nStarts' = nStarts + 1 /\ isRunning)
            => /\ UNCHANGED <<spinnerState, out, cancelled>>
               /\ callers'["main"].pc = "idle"
               /\ Len(cancelFns') = Len(cancelFns) + 1
               /\ cancelFns'[Len(cancelFns')].kind = "inert"
        /\ \A h \in DOMAIN cancelFns :
              (cancelFns[h].noop /\ cancelFns'[h].calls # cancelFns[h].calls)
                  => UNCHANGED <<spinnerState, out, cancelled>>
      ]_vars

\* a Start was called while the animation was running, its cancel function was
\* invoked, and the animation is still running
C6_Witness ==
    /\ Interactive
    /\ \E h \in DOMAIN cancelFns : cancelFns[h].noop /\ cancelFns[h].calls > 0
    /\ isRunning /\ AnimAlive # {}

\* C7: a Stop or Fail call made while the spinner is not running writes nothing
\* and changes no state, on both kinds of destination.
C7_StopWhenNotRunningIsNoOp ==
    [][ /\ (Main.pc = "idle" /\ nStops' = nStops + 1 /\ ~Interactive /\ ~isRunning)
            => UNCHANGED <<spinnerState, out>>
        /\ (Main.pc = "sp_check" /\ ~isRunning /\ callers'["main"] # Main)
            => (UNCHANGED <<spinnerState, out>> /\ callers'["main"].pc = "idle")
      ]_vars

\* the step in which an UpdateMessage call begins while the spinner is not
\* running
UpdateCalledNotRunning ==
    /\ Main.pc = "idle"
    /\ nUpdates' = nUpdates + 1
    /\ ~isRunning

UpdateLines == {i \in DOMAIN out : out[i].op = "UpdateMessage"}
UpdatesReturned == nUpdates - (IF Main.op = "UpdateMessage" THEN 1 ELSE 0)

\* C9: on a non-interactive destination every completed UpdateMessage(m) has
\* written m as one line, started or not; on an interactive destination
\* UpdateMessage writes nothing.
C9_UpdateWritesLine ==
    /\ \A i \in UpdateLines : out[i].k = "line" /\ out[i].msg \in Msgs /\ out[i].by = 0
    /\ Cardinality(UpdateLines) = IF Interactive THEN 0 ELSE UpdatesReturned

\* on a non-interactive destination UpdateMessage("Updated") on a spinner that
\* was never started has written the line "Updated"
C9_Witness ==
    /\ ~Interactive
    /\ nStarts = 0
    /\ Main.pc = "idle"
    /\ Len(out) = 1 /\ out[1].k = "line" /\ out[1].msg = "Updated"
    /\ out[1].op = "UpdateMessage"

\* C10: on a non-interactive destination, a Stop(m)/Fail(m) call made after
\* the cancel function of the running cycle was invoked writes m as a line and
\* leaves the spinner not running when it returns.
C10_StopAfterCancel ==
    [][ (/\ Main.pc = "idle" /\ nStops' = nStops + 1 /\ ~Interactive
         /\ Len(cancelFns) > 0
         /\ ~cancelFns[Len(cancelFns)].noop /\ cancelFns[Len(cancelFns)].calls > 0
         /\ \E op \in {"Stop", "Fail"} :
               out' = Append(out, Write("line", 0, "Done", -1, op)))
        => ~isRunning'
      ]_vars

\* the line-clear sequences task t has written
ClearsBy(t) == {i \in DOMAIN out : out[i].by = t /\ out[i].k = "clear"}

\* C11: on an interactive destination, when the animation task of a cycle has
\* exited, its context is cancelled and no Stop/Fail call was made in that
\* cycle, the task has cleared the running flag and written exactly one
\* line-clear sequence, and no final line was written for the cycle.
C11_CancelStopsAnimation ==
    \A t \in DOMAIN tasks :
        (/\ Interactive
         /\ tasks[t].kind = "anim" /\ tasks[t].pc = "done"
         /\ Done(t)
         /\ nStops = tasks[t].born)
            => /\ Cardinality(ClearsBy(t)) = 1
               /\ \A i \in DOMAIN out : out[i].nt = t => out[i].k # "final"
               /\ (t = Len(tasks) /\ Main.pc = "idle") => ~isRunning

\* the task launched by the Start call that returned the h-th cancel function
\* (for a Start that found the spinner running: the task then running)
TaskOf(h) == Cardinality({k \in 1..h : ~cancelFns[k].noop})

\* C12: on a non-interactive destination, invoking the cancel function
\* returned by a Start that found the spinner not running makes the context
\* the background task waits on done.
C12_CancelFunctionCancels ==
    [][ \A h \in DOMAIN cancelFns :
          (/\ ~Interactive
           /\ ~cancelFns[h].noop
           /\ cancelFns'[h].calls > cancelFns[h].calls)
              => (Done(TaskOf(h)))'
      ]_vars

\* a Stop/Fail call made after the Start that returned the h-th cancel
\* function has completed
StopCompletedSince(h) ==
    /\ TaskOf(h) > 0
    /\ nStops > tasks[TaskOf(h)].born
    /\ Main.pc = "idle"

\* C13: invoking a returned cancel function a second or later time, or after a
\* Stop/Fail call of its cycle has completed, writes nothing, changes no field
\* of the Spinner and cancels no task that was not cancelled already.
C13_CancelIdempotent ==
    [][ \A h \in DOMAIN cancelFns :
          (/\ cancelFns'[h].calls > cancelFns[h].calls
           /\ (cancelFns[h].calls >= 1 \/ StopCompletedSince(h)))
              => /\ UNCHANGED <<isRunning, message, current, stopChan, wg,
                               messageMu, out, cancelled>>
                 /\ \A t \in DOMAIN tasks :
                       tasks'[t] # tasks[t]
                           => (tasks[t].pc = "done" \/ Done(t))
      ]_vars

\* on an interactive destination the cancel function of a cycle that Stop has
\* ended was invoked twice, and a new cycle is running undisturbed
C13_Witness ==
    /\ Interactive
    /\ Main.pc = "idle"
    /\ Len(cancelFns) = 2
    /\ cancelFns[1].kind = "cancel" /\ cancelFns[1].calls = 2
    /\ cancelFns[2].kind = "cancel" /\ cancelFns[2].calls = 0
    /\ tasks[1].pc = "done" /\ ClearsBy(1) = {}
    /\ \E i \in DOMAIN out : out[i].by = 0 /\ out[i].k = "clear" /\ out[i].nt = 1
    /\ isRunning /\ tasks[2].pc = "select" /\ ~Done(2)

\* C14: a Spinner is reusable.  On an interactive destination an animation
\* task leaves its rendering loop only when a Stop/Fail call was made in its
\* cycle or its context is done; on a non-interactive destination a Start
\* called after a cycle that Stop(m)/Fail(m) has ended goes on to set the
\* running flag and write the message again.
C14_Reusable ==
    [][ /\ \A t \in DOMAIN tasks :
              (/\ tasks[t].kind = "anim"
               /\ tasks[t].pc = "select"
               /\ tasks'[t].pc \in {"exit", "cx_print"})
                  => (Done(t) \/ nStops > tasks[t].born)
        /\ (/\ ~Interactive
            /\ Main.pc = "idle" /\ nStarts' = nStarts + 1
            /\ Len(out) > 0 /\ out[Len(out)].op \in {"Stop", "Fail"})
               => callers'["main"].pc = "st_term"
      ]_vars

\* a line of text followed by a newline, written by a caller thread
IsPlainLine(w) == w.k = "line" /\ w.by = 0 /\ w.g = -1

\* C15: on a non-interactive destination every write is one plain line of a
\* caller thread (no escape sequence, symbol or frame glyph; the background
\* task writes nothing): Start writes the stored message, UpdateMessage(u)
\* writes u, Stop(f)/Fail(f) writes f, each appended in call order; the first
\* line of a cycle that begins the output is the initial message.
C15_NonInteractiveOutput ==
    [][ ~Interactive =>
          /\ \A i \in DOMAIN out : IsPlainLine(out[i])
          /\ (Len(out) > 0 /\ out[1].op = "Start") => out[1].msg \in InitMsgs
          /\ out' # out =>
                /\ Len(out') = Len(out) + 1
                /\ SubSeq(out', 1, Len(out)) = out
                /\ IsPlainLine(out'[Len(out')])
                /\ tasks' = tasks \/ callers' # callers
          /\ (Main.pc = "st_n_print" /\ callers'["main"] # Main)
                => out' = Append(out, Write("line", 0, message, -1, "Start"))
          /\ (Main.pc = "um_print" /\ callers'["main"] # Main)
                => out' = Append(out, Write("line", 0, Main.arg, -1, "UpdateMessage"))
          /\ (Main.pc = "idle" /\ nStops' = nStops + 1 /\ out' # out)
                => out'[Len(out')].msg \in FinalArgs \ {NoMsg}
      ]_vars

\* the output of Start; UpdateMessage("Updated"); Stop("Done") or Fail("Done")
\* on a non-interactive destination, after the context was cancelled and the
\* background task has run
C15_Witness ==
    /\ ~Interactive
    /\ Main.pc = "idle"
    /\ Len(out) = 3
    /\ out[1].msg = "Initial" /\ out[1].op = "Start"
    /\ out[2].msg = "Updated" /\ out[2].op = "UpdateMessage"
    /\ out[3].msg = "Done" /\ out[3].op \in {"Stop", "Fail"}
    /\ Len(tasks) = 1 /\ tasks[1].kind = "waiter" /\ tasks[1].pc = "done"

\* C16: on a non-interactive destination a Stop or Fail call on a running
\* spinner either writes nothing (no message given) or appends exactly the
\* given message as one plain line, the same for Stop and for Fail.
C16_NonInteractiveStop ==
    [][ (~Interactive /\ isRunning /\ Main.pc = "idle" /\ nStops' = nStops + 1)
          => \/ out' = out
             \/ \E op \in {"Stop", "Fail"}, arg \in FinalArgs \ {NoMsg} :
                   out' = Append(out, Write("line", 0, arg, -1, op))
      ]_vars

\* on a non-interactive destination Fail("Done") on a running spinner has
\* written the line "Done" right after the line of Start
C16_Witness ==
    /\ ~Interactive
    /\ isRunning
    /\ Len(out) = 2
    /\ out[1].op = "Start"
    /\ out[2] = [k |-> "line", by |-> 0, msg |-> "Done", g |-> -1, op |-> "Fail", nt |-> 1]

\* an UpdateMessage call has been made and has returned
UpdateReturned == nUpdates >= 1 /\ Main.op # "UpdateMessage"

\* the frames task t has written that show a message given to UpdateMessage
UpdatedFramesBy(t) ==
    {i \in DOMAIN out : out[i].by = t /\ out[i].k = "frame" /\ out[i].msg \in Msgs}

\* C17: on an interactive destination UpdateMessage(m) writes nothing itself;
\* once it has returned the stored message is m, every tick that starts
\* afterwards reads m and its frame shows what the tick read; and a running
\* animation task whose ticker can still fire eventually writes a frame
\* showing m unless it is stopped or cancelled first.
C17_NextTickShowsMessage ==
    /\ [][ Interactive =>
             /\ (Main.pc = "idle" /\ nUpdates' = nUpdates + 1) => out' = out
             /\ (Main.op = "UpdateMessage" /\ callers'["main"] # Main) => out' = out
             /\ UpdateReturned => message \in Msgs
             /\ \A t \in DOMAIN tasks :
                   /\ (/\ UpdateReturned
                       /\ tasks[t].pc = "select" /\ tasks'[t].pc = "tk_runlock")
                         => (tasks'[t].msg = message /\ tasks'[t].msg \in Msgs)
                   /\ (tasks[t].pc = "tk_print" /\ tasks'[t].pc = "tk_adv")
                         => out' = Append(out, Write("frame", t, tasks[t].msg, current, "tick"))
         ]_vars
    /\ \A t \in 1..MaxStarts :
          (/\ Interactive /\ UpdateReturned
           /\ t \in DOMAIN tasks /\ tasks[t].pc = "select"
           /\ nTicks < MaxTicks)
             ~> (/\ t \in DOMAIN tasks
                 /\ \/ UpdatedFramesBy(t) # {}
                    \/ tasks[t].pc \in {"cx_print", "exit", "done"})

\* a frame showing the initial message was written, UpdateMessage("Updated")
\* returned, and the next frame of the same running task shows "Updated"
C17_Witness ==
    /\ Interactive
    /\ isRunning /\ Len(tasks) = 1 /\ tasks[1].pc \notin {"cx_print", "exit", "done"}
    /\ Len(out) = 2
    /\ out[1].k = "frame" /\ out[1].msg = "Initial" /\ out[1].g = 0
    /\ out[2].k = "frame" /\ out[2].msg = "Updated" /\ out[2].g = 1

\* the line-clear sequences Stop/Fail calls have written in the cycle of task t
CallerClearsIn(t) == {i \in DOMAIN out : out[i].by = 0 /\ out[i].k = "clear" /\ out[i].nt = t}
FinalLinesIn(t) == {i \in DOMAIN out : out[i].by = 0 /\ out[i].k = "final" /\ out[i].nt = t}

\* C18: when two caller threads call Stop/Fail concurrently on a running
\* interactive spinner, at most one of the calls takes effect: at most one
\* line-clear and at most one final line are written for the cycle.
C18_ConcurrentStopOnce ==
    \A t \in DOMAIN tasks :
        /\ Cardinality(CallerClearsIn(t)) <= 1
        /\ Cardinality(FinalLinesIn(t)) <= 1

\* the animation tasks that can still receive from p.stopChan
AnimReceiving == {t \in AnimAlive : tasks[t].pc \notin {"cx_print", "exit"}}

\* C19: a Stop/Fail call of the single caller thread is never stuck: while it
\* waits to send the stop signal into a full channel an animation task that
\* can receive it exists, and while it waits for the task's exit a live
\* animation task exists.
C19_StopNeverBlocks ==
    /\ (Main.pc = "sp_send" /\ stopChan = StopChanCap) => AnimReceiving # {}
    /\ (Main.pc = "sp_wait" /\ wg > 0) => AnimAlive # {}

\* C20: on an interactive destination a caller-side write (the line-clear and
\* final line of Stop/Fail) happens only when no animation task is alive, and
\* an animation task writes only while it is the newest task.
C20_OneWriterAtATime ==
    [][ (Interactive /\ out' # out) =>
          /\ out'[Len(out')].by = 0 => AnimAlive = {}
          /\ out'[Len(out')].by # 0 => out'[Len(out')].by = Len(tasks)
      ]_vars

C22_FramesNonEmpty ==
    /\ AnimAlive # {} => Len(pin.frames) >= 1
    /\ ~Panicked

\* C23: every write goes to the configured output destination p.out.
C23_WritesGoToDestination ==
    \A i \in DOMAIN out : Sink(out[i]) = pin.out

\* the path Start chose for the cycle in progress: the goroutine it launched
CyclePath == IF tasks[Len(tasks)].kind = "anim" THEN "interactive" ELSE "non-interactive"

\* C24: UpdateMessage, Stop and Fail of a cycle follow the path (interactive or
\* non-interactive) that Start chose, also when ForceInteractive was assigned
\* in between: on the interactive path UpdateMessage writes nothing and
\* Stop/Fail go on to test the running flag; on the non-interactive path
\* UpdateMessage writes its line and Stop/Fail return at once.
C24_DecidedAtStart ==
    [][ (Len(tasks) > 0 /\ callers'["main"] # Main) =>
          /\ Main.pc = "um_print"
                => (out' # out <=> CyclePath = "non-interactive")
          /\ (Main.pc = "idle" /\ nStops' = nStops + 1)
                => (callers'["main"].pc = "sp_check" <=> CyclePath = "interactive")
      ]_vars

\* the color-code piece right before the message msg in the text txt, "" if
\* there is none
ColorCodes == {getColorCode(c) : c \in Colors} \ {""}
IndexOf(txt, x) == CHOOSE i \in DOMAIN txt : txt[i] = x /\ \A j \in 1..(i - 1) : txt[j] # x
ColorBefore(txt, x) ==
    LET i == IndexOf(txt, x)
    IN  IF i > 1 /\ txt[i - 1] \in ColorCodes THEN txt[i - 1] ELSE ""

\* C25: in the final line of Fail the message text has the fail color when a
\* fail color other than the default is configured and the text color
\* otherwise; in the final line of Stop it has the text color, for every
\* sequence of options given to New.
C25_FinalMessageColor ==
    \A i \in DOMAIN out :
        out[i].k = "final" =>
            ColorBefore(Text(out[i]), out[i].msg) =
                IF out[i].op = "Fail" /\ pin.failColor # "ColorDefault"
                THEN getColorCode(pin.failColor)
                ELSE getColorCode(pin.textColor)

Has(txt, x) == \E i \in DOMAIN txt : txt[i] = x
Before(txt, x, y) == Has(txt, x) /\ Has(txt, y) /\ IndexOf(txt, x) < IndexOf(txt, y)

\* the text txt is [prefix-block] followed by x and y in the order the
\* configured position asks for: x (glyph or symbol) first with
\* glyph-before-text, the message y first with glyph-after-text
InRenderOrder(txt, x, y) ==
    /\ IF pin.position = "PositionLeft" THEN Before(txt, x, y) ELSE Before(txt, y, x)
    /\ IF pin.prefix = ""
       THEN ~Has(txt, pin.separator)
       ELSE /\ Before(txt, pin.prefix, pin.separator)
            /\ Before(txt, pin.separator, x)
            /\ Before(txt, pin.separator, y)

\* C26: every frame is the line-clear sequence, then [prefix-block][glyph]
\* [message] with glyph-before-text and [prefix-block][message][glyph] with
\* glyph-after-text; every final line is [prefix-block][symbol][message] or
\* [prefix-block][message][symbol] and ends with a newline; Stop uses the done
\* symbol and Fail the fail symbol.
C26_RenderOrder ==
    \A i \in DOMAIN out :
        /\ out[i].k = "frame" =>
              /\ Text(out[i])[1] = ClearLine
              /\ InRenderOrder(Text(out[i]), pin.frames[out[i].g + 1], out[i].msg)
        /\ out[i].k = "final" =>
              /\ Text(out[i])[Len(Text(out[i]))] = Newline
              /\ InRenderOrder(Text(out[i]),
                               IF out[i].op = "Stop" THEN pin.doneSymbol ELSE pin.failSymbol,
                               out[i].msg)

\* with glyph-after-text and a prefix, a frame and the final line of Fail have
\* been written
C26_Witness ==
    /\ pin.position = "PositionRight" /\ pin.prefix = "Task"
    /\ Len(out) >= 3
    /\ out[1].k = "frame"
    /\ out[Len(out)].k = "final" /\ out[Len(out)].op = "Fail"

\* C27: on an interactive destination a newline is written only by the final
\* line of a Stop/Fail call that was given a message: frames and line-clear
\* sequences contain none, and a call without a message writes no final line.
C27_NoNewlineWithoutMessage ==
    Interactive =>
        \A i \in DOMAIN out :
            /\ Has(Text(out[i]), Newline) => out[i].k = "final"
            /\ out[i].k = "final" => out[i].msg # NoMsg

\* an interactive cycle with two frames has been ended by Stop() or Fail()
\* without a message
C27_Witness ==
    /\ Interactive
    /\ Main.pc = "idle" /\ nStops = 1
    /\ Len(out) = 3
    /\ out[1].k = "frame" /\ out[2].k = "frame"
    /\ out[3].k = "clear" /\ out[3].by = 0
    /\ AnimAlive = {}

\* C28: the message of the Spinner New(M, options) returns is M, and it stays
\* M until the first UpdateMessage call.
C28_NewKeepsMessage ==
    nUpdates = 0 => message = newArgs.message

\* New("Loading", two options) was started and a frame shows "Loading"
C28_Witness ==
    /\ newArgs.message = "Loading" /\ Len(newArgs.opts) = 2
    /\ newArgs.opts[1].name = "WithPrefix"
    /\ nUpdates = 0 /\ message = "Loading"
    /\ \E i \in DOMAIN out : out[i].k = "frame" /\ out[i].msg = "Loading"

\* the field a With* option overrides, the value it gives it, and the default
\* of each field
FieldOf(n) ==
    CASE n = "WithSpinnerColor" -> "spinnerColor"
      [] n = "WithTextColor" -> "textColor"
      [] n = "WithDoneSymbol" -> "doneSymbol"
      [] n = "WithDoneSymbolColor" -> "doneSymbolColor"
      [] n = "WithPrefix" -> "prefix"
      [] n = "WithPrefixColor" -> "prefixColor"
      [] n = "WithSeparator" -> "separator"
      [] n = "WithSeparatorColor" -> "separatorColor"
      [] n = "WithPosition" -> "position"
      [] n = "WithFailSymbol" -> "failSymbol"
      [] n = "WithFailSymbolColor" -> "failSymbolColor"
      [] n = "WithFailColor" -> "failColor"
      [] n = "WithSpinnerFrames" -> "frames"
      [] n = "WithWriter" -> "out"
ValueOf(o) == IF o.name = "WithSpinnerFrames" THEN FramesOf(o.val) ELSE o.val
DefaultOf(f) ==
    CASE f = "frames" -> <<"f0", "f1", "f2", "f3", "f4", "f5", "f6", "f7", "f8", "f9">>
      [] f = "doneSymbol" -> "CHECK"
      [] f = "doneSymbolColor" -> "ColorGreen"
      [] f = "failSymbol" -> "CROSS"
      [] f = "failSymbolColor" -> "ColorRed"
      [] f = "separator" -> ">"
      [] f = "separatorColor" -> "ColorWhite"
      [] f = "position" -> "PositionLeft"
      [] f = "out" -> "stdout"
      [] f = "prefix" -> ""
      [] OTHER -> "ColorDefault"
OptsFor(f) == {i \in DOMAIN newArgs.opts : FieldOf(newArgs.opts[i].name) = f}
LastOf(S) == CHOOSE i \in S : \A j \in S : j <= i

\* C29: every configurable field has the value of the last option given for
\* it, and its default when no option was given for it.
C29_OptionsOverrideOneField ==
    \A f \in DOMAIN pin :
        pin[f] = IF OptsFor(f) = {} THEN DefaultOf(f)
                 ELSE ValueOf(newArgs.opts[LastOf(OptsFor(f))])

\* New was given two options for the text color; the second one won, every
\* other field has its default, and the Spinner was started
C29_Witness ==
    /\ Len(newArgs.opts) = 2
    /\ newArgs.opts[1] = [name |-> "WithTextColor", val |-> "ColorCyan"]
    /\ newArgs.opts[2] = [name |-> "WithTextColor", val |-> "ColorYellow"]
    /\ pin.textColor = "ColorYellow"
    /\ pin.doneSymbol = "CHECK" /\ pin.out = "stdout"
    /\ nStarts = 1 /\ Main.pc = "idle"

\* C30: a destination is interactive exactly when ForceInteractive is set or
\* the destination is a character device, and Start takes the interactive path
\* exactly then.
C30_InteractiveIffForcedOrDevice ==
    [][ /\ Interactive <=> (ForceInteractive \/ outKind = "chardev")
        /\ (Main.pc = "st_term" /\ callers'["main"] # Main)
              => (callers'["main"].pc = "st_i_add"
                      <=> (ForceInteractive \/ outKind = "chardev"))
      ]_vars

\* with the flag not set and a file whose Stat fails, Start took the
\* non-interactive path
C30_Witness ==
    /\ ~ForceInteractive /\ outKind = "staterr"
    /\ Len(tasks) = 1 /\ tasks[1].kind = "waiter"
    /\ Len(out) = 1 /\ out[1].k = "line"

\* the frames written by task t, as positions in the output
FramesBy(t) == {i \in DOMAIN out : out[i].k = "frame" /\ out[i].by = t}
AllFrames == {i \in DOMAIN out : out[i].k = "frame"}
NextGlyph(g) == (g + 1) % Len(pin.frames)
Advancing == \E t \in DOMAIN tasks : tasks[t].pc \in {"tk_adv", "tk_store"}

\* C31: the frame index is always in 0..length-1; the first frame of a fresh
\* Spinner shows the first glyph; two consecutive frames of one animation task
\* show cyclically consecutive glyphs; and once a tick has completed, the index
\* is the one that follows the glyph it rendered.
C31_TickAdvancesIndex ==
    /\ current \in 0..(Len(pin.frames) - 1)
    /\ \A i \in AllFrames : (\A j \in AllFrames : i <= j) => out[i].g = 0
    /\ \A t \in DOMAIN tasks : \A i, j \in FramesBy(t) :
          (i < j /\ ~\E m \in FramesBy(t) : i < m /\ m < j)
              => out[j].g = NextGlyph(out[i].g)
    /\ (AllFrames # {} /\ ~Advancing)
          => \A i \in AllFrames :
                (\A j \in AllFrames : j <= i) => current = NextGlyph(out[i].g)

\* one task has rendered two frames of a one-glyph or two-glyph sequence and
\* the index has wrapped to 0
C31_Witness ==
    /\ \E t \in DOMAIN tasks : Cardinality(FramesBy(t)) = 2
    /\ ~Advancing
    /\ current = 0

\* the step is a tick's store of the frame index
TickStores ==
    \E t \in DOMAIN tasks : tasks[t].pc = "tk_store" /\ tasks'[t].pc = "select"

\* C32: the frame index is changed only by the store of a tick of an animation
\* task: no step of Start, Stop, Fail, UpdateMessage or of a cancel function,
\* and no cancellation of a context, changes it.
C32_IndexOwnedByTick ==
    [][ /\ current' # current => TickStores
        /\ (callers' # callers \/ cancelFns' # cancelFns \/ cancelled' # cancelled)
              => current' = current
      ]_vars

\* a tick has advanced the index, and Stop/Fail, UpdateMessage, a second Start
\* and a cancel function have all been called since
C32_Witness ==
    /\ current = 1
    /\ Main.pc = "idle"
    /\ nStarts = 2 /\ nStops >= 1 /\ nUpdates = 1 /\ nCancels >= 1

\* C33: an animation task that leaves its loop on the stop signal writes
\* nothing and does not change the running flag, then or when it returns; the
\* cancel functions change neither the stop channel, the running flag nor the
\* output; and only the send of a Stop or Fail call adds to the stop channel.
C33_StopSignalOnlyFromStop ==
    [][ /\ \A t \in DOMAIN tasks :
              \/ tasks[t].pc = "select" /\ tasks'[t].pc = "exit"
              \/ tasks[t].pc = "exit" /\ tasks'[t].pc = "done"
              => UNCHANGED <<out, isRunning>>
        /\ cancelFns' # cancelFns => UNCHANGED <<stopChan, isRunning, out>>
        /\ stopChan' > stopChan
              => /\ Main.pc = "sp_send" /\ Main.op \in {"Stop", "Fail"}
                 /\ callers'["main"].pc = "sp_wait"
      ]_vars

\* a task whose context was never done has returned (it received the stop
\* signal of Stop/Fail), and the cancel function of a derived context has been
\* invoked
C33_Witness ==
    /\ \E t \in DOMAIN tasks :
          tasks[t].kind = "anim" /\ tasks[t].pc = "done" /\ ~Done(t)
    /\ \E h \in DOMAIN cancelFns : cancelFns[h].kind = "cancel" /\ cancelFns[h].calls > 0
    /\ stopChan = 0

\* the text txt holds the prefix block (prefix, space, separator, space) in
\* front of x and y
PrefixBlockBefore(txt, x, y) ==
    /\ Has(txt, pin.prefix) /\ Has(txt, pin.separator) /\ Has(txt, x) /\ Has(txt, y)
    /\ LET ip == IndexOf(txt, pin.prefix)
           is == IndexOf(txt, pin.separator)
           ix == IndexOf(txt, x)
           iy == IndexOf(txt, y)
       IN  /\ \E b \in (ip + 1)..(is - 1) : txt[b] = " "
           /\ \E d \in (is + 1)..(ix - 1) : d < iy /\ txt[d] = " "

\* C34: with a non-empty prefix every frame and every final line holds the
\* prefix block (prefix, space, separator, space) in front of the glyph (or
\* symbol) and the message; with an empty prefix no write holds the separator.
C34_PrefixBlockIffPrefix ==
    \A i \in DOMAIN out :
        IF pin.prefix = ""
        THEN ~Has(Text(out[i]), pin.separator)
        ELSE /\ out[i].k = "frame" =>
                  PrefixBlockBefore(Text(out[i]), pin.frames[out[i].g + 1], out[i].msg)
             /\ out[i].k = "final" =>
                  PrefixBlockBefore(Text(out[i]),
                      IF out[i].op = "Stop" THEN pin.doneSymbol ELSE pin.failSymbol,
                      out[i].msg)

\* a separator is configured without a prefix, and a frame and a final line
\* have been written
C34_Witness ==
    /\ pin.prefix = "" /\ pin.separator = ":"
    /\ \E i \in DOMAIN out : out[i].k = "frame"
    /\ \E i \in DOMAIN out : out[i].k = "final"

\* C35: whenever no Stop or Fail call is in progress the stop channel is
\* empty.
C35_NoStaleStopSignal ==
    Main.pc \notin StopPcs => stopChan = 0

\* C36: on an interactive destination, whenever the running flag is true and
\* no Start call is in progress, an animation task is alive.
C36_RunningImpliesTaskAlive ==
    (Interactive /\ isRunning /\ Main.pc \notin StartPcs) => AnimAlive # {}

\* C37: of two frames written one after the other, by the same animation task
\* or by the tasks of two cycles, the second shows the glyph that cyclically
\* follows the glyph of the first: Stop, Fail, cancellation and Start do not
\* reset the frame index.
C37_IndexSurvivesRestart ==
    \A i, j \in AllFrames :
        (i < j /\ ~\E m \in AllFrames : i < m /\ m < j)
            => out[j].g = NextGlyph(out[i].g)

\* the first cycle rendered one frame and ended, and the first frame of the
\* second cycle has been rendered by a second task
C37_Witness ==
    /\ Len(tasks) = 2 /\ tasks[1].pc = "done"
    /\ Len(pin.frames) = 2
    /\ Cardinality(FramesBy(1)) = 1 /\ Cardinality(FramesBy(2)) = 1
    /\ \A i \in FramesBy(1), j \in FramesBy(2) : i < j /\ out[i].g = 0 /\ out[j].g = 1

\* C39: on an interactive destination the caller thread writes only in Stop
\* and Fail (Start writes nothing), frames are written by animation tasks
\* only, and while no tick has rendered a frame the output holds nothing but
\* line-clear sequences and final lines, none of them showing the initial
\* message.
C39_StartWritesNothing ==
    Interactive =>
        /\ \A i \in DOMAIN out :
              /\ out[i].by = 0 => (out[i].k \in {"clear", "final"} /\ out[i].op \in {"Stop", "Fail"})
              /\ out[i].k = "frame" => out[i].by # 0
        /\ AllFrames = {} =>
              \A i \in DOMAIN out :
                  out[i].k \in {"clear", "final"} /\ ~Has(Text(out[i]), newArgs.message)

\* Stop("Done") or Fail("Done") took effect before the first tick: the output
\* is the line-clear and the final line
C39_Witness ==
    /\ Interactive
    /\ nStarts = 1 /\ nTicks = 0 /\ Main.pc = "idle"
    /\ Len(tasks) = 1 /\ tasks[1].pc = "done"
    /\ Len(out) = 2
    /\ out[1].k = "clear" /\ out[1].by = 0
    /\ out[2].k = "final" /\ out[2].msg = "Done"

\* the step in which Stop("Done")/Fail("Done") returns in the call sequence
\* Start; cancel(); Stop("Done") of one caller thread (no other cancellation)
StopAfterCancelReturns ==
    /\ Interactive
    /\ Main.pc \in StopPcs /\ callers'["main"].pc = "idle"
    /\ Main.arg = "Done"
    /\ nStarts = 1 /\ nStops = 1 /\ nCancels = 1
    /\ Len(cancelFns) = 1 /\ cancelFns[1].calls = 1
    /\ \A x \in Ctxs : ~cancelled[x]

\* C40: the call sequence Start; cancel(); Stop(m) has one outcome: when Stop
\* returns the final line for m is written, the stop channel is empty and the
\* running flag is false, whether or not the task observed the cancellation
\* before Stop tested the running flag.
C40_CancelThenStopOneOutcome ==
    [][StopAfterCancelReturns
          => /\ Len(out') > 0
             /\ out'[Len(out')].k = "final" /\ out'[Len(out')].by = 0
             /\ stopChan' = 0
             /\ ~isRunning'
      ]_vars

\* the cycle of task t has ended: its animation task has returned, or (for a
\* cycle started on a non-interactive destination) a Stop/Fail call made after
\* its Start has returned
CycleEnded(t) ==
    \/ tasks[t].pc = "done"
    \/ tasks[t].kind = "waiter" /\ nStops > tasks[t].born /\ Main.pc \notin StopPcs

\* the step cancels the context given to the Start of task t, or invokes the
\* cancel function that Start returned
CancelsCycle(t) ==
    \/ /\ tasks[t].parent # Background
       /\ ~cancelled[tasks[t].parent] /\ cancelled'[tasks[t].parent]
    \/ ~tasks[t].own /\ tasks'[t].own

\* a later Start has set the running flag and launched an animation task that
\* is in its loop, and the step does not cancel the context of that task
LaterCycleRuns(t) ==
    /\ t < Len(tasks) /\ isRunning
    /\ tasks[Len(tasks)].kind = "anim" /\ tasks[Len(tasks)].pc = "select"
    /\ ~tasks'[Len(tasks)].own
    /\ tasks[Len(tasks)].parent # Background => ~cancelled'[tasks[Len(tasks)].parent]

\* C38: a cancellation of a cycle that has ended, made while a later cycle
\* runs, changes neither the running flag, the output nor the stop channel,
\* and leaves no task of the ended cycle that will act on it.
C38_OldCancelHasNoEffect ==
    [][\A t \in DOMAIN tasks :
          (CycleEnded(t) /\ LaterCycleRuns(t) /\ CancelsCycle(t))
              => /\ UNCHANGED <<isRunning, out, stopChan>>
                 /\ tasks'[t].pc = "done"
      ]_vars

====
